---- MODULE Spec2Model ----
(***************************************************************************)
(* Model of the Demon wallet adapter (src/src/adapter/demonAdapter.ts) and *)
(* of the JSON-RPC router it exposes                                       *)
(* (src/src/adapter/baseInjectedProvider.ts).                              *)
(*                                                                         *)
(* Every `await` of the adapter is a suspension point: an async method is  *)
(* cut into one action per synchronous segment, and the segments of        *)
(* different calls interleave freely, as on a single-threaded event loop.  *)
(***************************************************************************)
EXTENDS Naturals, Sequences, FiniteSets, TLC

VARIABLES
  status,            \* DemonAdapter.status
  _wallet,           \* DemonAdapter._wallet: NoWalletId or the id of a wallet object
  demonProvider,     \* DemonAdapter.demonProvider: Null or a provider record
  rehydrated,        \* BaseAdapter.rehydrated
  chainConfig,       \* chain id of BaseAdapter.chainConfig
  knownChainConfigs, \* chain ids the adapter knows (addChainConfig)
  wallets,           \* the DemonWalletAdapter objects created so far
  nWallets,          \* how many wallet objects connect() has constructed
  calls,             \* the connect() invocations in flight: position and wallet
  initCall,          \* the init() invocation
  discCall,          \* the disconnect() invocation
  emitted,           \* the events the last step emitted, in order
  switchCall,        \* the switchChain() invocation
  response,          \* the response to the request the last step sent through the router
  op                 \* the last step: operation, inputs, status before, outcome

vars == <<status, _wallet, demonProvider, rehydrated, chainConfig, knownChainConfigs,
          wallets, nWallets, calls, initCall, discCall, switchCall, emitted, response, op>>

----------------------------------------------------------------------------
(* Bounds *)

MaxWallets == 2
MaxCalls == 2

----------------------------------------------------------------------------
(* Values *)

\* An absent object reference is the empty tuple, a present one a one-element
\* tuple; errors and results are tuples too, and no wallet is wallet 0.
Null == <<>>
Unset == <<>>
NoError == <<>>
NoWalletId == 0

NOT_READY == "not_ready"
READY == "ready"
CONNECTING == "connecting"
CONNECTED == "connected"

\* The chain ids an adapter is constructed with, and the ones addChain and
\* switchChain are called with.
InitChainIds == {"0x1", "0x4"}
ChainIds == {"0x1", "0x2"}

WalletIds == 1..MaxWallets
CallIds == 1..MaxCalls

----------------------------------------------------------------------------
(* The router: baseInjectedProvider.ts *)

HandlerNames == {"requestAccounts", "getAccounts", "signTransaction",
                 "signAndSendTransaction", "signAllTransactions", "signMessage",
                 "getPrivateKey", "getSecretKey"}

\* What a handler of IProviderHandlers does when called: it is not there,
\* it returns its value, or it throws.
HandlerBehaviours == {"absent", "returns", "throws"}

HandlerConfigs == [HandlerNames -> HandlerBehaviours]

AllHandlers == [h \in HandlerNames |-> "returns"]

HandlerValue(h) == <<"value", h>>
HandlerError(h) == <<"thrown", h>>
NotProvided(name) == <<"not provided", name>>

EmptyResponse == [result |-> Unset, error |-> NoError, ended |-> FALSE,
                  invoked |-> <<>>, visited |-> <<>>]

\* One async stage: lines 41-50, 57-67 and 75-84 have the same shape.
\* `label` is the name the stage's "not provided" message carries, as prefix
\* and method name.
AsyncStage(targetMethod, label, h, handlers, method, res) ==
  IF method # targetMethod
    THEN [res |-> res, next |-> TRUE]
  ELSE IF handlers[h] = "absent"
    THEN [res |-> [res EXCEPT !.error = NotProvided(label), !.ended = TRUE],
          next |-> FALSE]
  ELSE IF handlers[h] = "throws"
    THEN [res |-> [res EXCEPT !.invoked = Append(@, h),
                              !.error = HandlerError(h), !.ended = TRUE],
          next |-> FALSE]
  ELSE [res |-> [res EXCEPT !.invoked = Append(@, h),
                            !.result = HandlerValue(h), !.ended = TRUE],
        next |-> FALSE]

createRequestAccountsMiddleware(handlers, method, res) ==
  AsyncStage("requestAccounts", <<"opts.", "requestAccounts">>, "requestAccounts",
             handlers, method, res)

\* createGetAccountsMiddleware with a stage that passes the request on when
\* its handler is absent.
createGetAccountsMiddleware_SkipsAbsent(handlers, method, res) ==
  IF method = "getAccounts" /\ handlers["getAccounts"] = "absent"
    THEN [res |-> res, next |-> TRUE]
    ELSE AsyncStage("getAccounts", <<"opts.", "getAccounts">>, "getAccounts",
                    handlers, method, res)

createGetAccountsMiddleware(handlers, method, res) ==
  AsyncStage("getAccounts", <<"opts.", "getAccounts">>, "getAccounts",
             handlers, method, res)

\* createGenericJRPCMiddleware with a stage that calls next() after it has
\* handled the request.
createGenericJRPCMiddleware_CallsNext(targetMethod, h, handlers, method, res) ==
  [AsyncStage(targetMethod, <<"", targetMethod>>, h, handlers, method, res)
     EXCEPT !.next = TRUE]

createGenericJRPCMiddleware(targetMethod, h, handlers, method, res) ==
  AsyncStage(targetMethod, <<"", targetMethod>>, h, handlers, method, res)

\* createChainIdMiddleware without the test of the method name.
createChainIdMiddleware_AnyMethod(chainId, method, res) ==
  [res |-> [res EXCEPT !.result = <<"chainId", chainId>>, !.ended = TRUE],
   next |-> FALSE]

createChainIdMiddleware(chainId, method, res) ==
  IF method = "solana_chainId"
    THEN [res |-> [res EXCEPT !.result = <<"chainId", chainId>>, !.ended = TRUE],
          next |-> FALSE]
    ELSE [res |-> res, next |-> TRUE]

createProviderConfigMiddleware(providerConfig, method, res) ==
  IF method = "solana_provider_config"
    THEN [res |-> [res EXCEPT !.result = <<"config", providerConfig>>, !.ended = TRUE],
          next |-> FALSE]
    ELSE [res |-> res, next |-> TRUE]

\* The stages in the order createSolanaMiddleware and setupProvider push them.
NumStages == 11

Stage(i, engine, method, res) ==
  CASE i = 1 -> createRequestAccountsMiddleware(engine.handlers, method, res)
    [] i = 2 -> createGetAccountsMiddleware(engine.handlers, method, res)
    [] i = 3 -> createGenericJRPCMiddleware("signTransaction", "signTransaction",
                                            engine.handlers, method, res)
    [] i = 4 -> createGenericJRPCMiddleware("signAndSendTransaction",
                                            "signAndSendTransaction",
                                            engine.handlers, method, res)
    [] i = 5 -> createGenericJRPCMiddleware("signAllTransactions", "signAllTransactions",
                                            engine.handlers, method, res)
    [] i = 6 -> createGenericJRPCMiddleware("signMessage", "signMessage",
                                            engine.handlers, method, res)
    [] i = 7 -> createGenericJRPCMiddleware("solanaPrivateKey", "getPrivateKey",
                                            engine.handlers, method, res)
    [] i = 8 -> createGenericJRPCMiddleware("private_key", "getPrivateKey",
                                            engine.handlers, method, res)
    [] i = 9 -> createGenericJRPCMiddleware("solanaSecretKey", "getSecretKey",
                                            engine.handlers, method, res)
    [] i = 10 -> createChainIdMiddleware(engine.chainId, method, res)
    [] i = 11 -> createProviderConfigMiddleware(engine.chainId, method, res)

\* mergeMiddleware / JRPCEngine: run the stages in order until one ends the request.
RECURSIVE RunStages(_, _, _, _)
RunStages(i, engine, method, res) ==
  IF i > NumStages THEN res
  ELSE LET r == Stage(i, engine, method, [res EXCEPT !.visited = Append(@, i)])
       IN IF r.next THEN RunStages(i + 1, engine, method, r.res) ELSE r.res

Dispatch(engine, method) == RunStages(1, engine, method, EmptyResponse)

\* The handler each bound method name is bound to, and the stage that binds it.
BoundMethods == {"requestAccounts", "getAccounts", "signTransaction",
                 "signAndSendTransaction", "signAllTransactions", "signMessage",
                 "solanaPrivateKey", "private_key", "solanaSecretKey"}

ConfigMethods == {"solana_chainId", "solana_provider_config"}

Methods == BoundMethods \cup ConfigMethods \cup {"getBalance", "requestaccounts"}

----------------------------------------------------------------------------
(* The adapter: demonAdapter.ts *)

SupportedChainIds == {"0x1", "0x2", "0x3"}

\* A DemonWalletAdapter object: its `connected` and `publicKey` getters,
\* whether the adapter's _onDisconnect is registered for its "disconnect" event,
\* and whether a connect() call has resolved with it (line 115).
NoWallet == [connected |-> FALSE, publicKey |-> FALSE, listener |-> FALSE,
             resolved |-> FALSE]

\* A call that has settled frees its slot: its outcome is in `op`.
IdleCall == [pc |-> "idle", w |-> NoWalletId, byInit |-> FALSE]

IdleInit == [pc |-> "idle", autoConnect |-> FALSE, out |-> "", err |-> NoError]

IdleDisc == [pc |-> "idle", cleanup |-> FALSE, w |-> NoWalletId]

IdleSwitch == [pc |-> "idle", chainId |-> ""]

Settled(pc) == pc \in {"idle", "resolved", "rejected"}

\* The adapter fields a synchronous segment reads and writes, as one record.
Cur == [status |-> status, wallet |-> _wallet, provider |-> demonProvider,
        rehydrated |-> rehydrated, wallets |-> wallets, nWallets |-> nWallets,
        emitted |-> <<>>]

Set(s) ==
  /\ status' = s.status
  /\ _wallet' = s.wallet
  /\ demonProvider' = s.provider
  /\ rehydrated' = s.rehydrated
  /\ wallets' = s.wallets
  /\ nWallets' = s.nWallets
  /\ emitted' = s.emitted

Emit(s, name, payload) == [s EXCEPT !.emitted = Append(@, <<name, payload>>)]

Emitted(name) == \E i \in 1..Len(emitted) : emitted[i][1] = name

CountEmitted(name) == Cardinality({i \in 1..Len(emitted) : emitted[i][1] = name})

\* get provider(): demonProvider?.provider || null
provider(s) == IF s.provider = Null THEN Null ELSE s.provider[1].engine

\* get isWalletConnected()
isWalletConnected(s) ==
  /\ s.wallet # NoWalletId
  /\ s.wallets[s.wallet].connected
  /\ s.status = CONNECTED

\* BaseAdapter.checkConnectionRequirements, called at line 82: the error it
\* throws in status st, or NoError.
checkConnectionRequirements(st) ==
  IF st = READY THEN NoError ELSE <<"PreconditionError", st>>

\* BaseAdapter.checkInitializationRequirements, called at line 60.
checkInitializationRequirements(st) ==
  IF st = NOT_READY THEN NoError ELSE <<"PreconditionError", st>>

\* BaseAdapter.checkDisconnectionRequirements, called by disconnectSession (line 128).
checkDisconnectionRequirements(st) ==
  IF st = CONNECTED THEN NoError ELSE <<"DisconnectionError", "Not connected with wallet">>

\* The catch block of connect() without the ERRORED event.
ConnectCatch_NoEmit(s, error) ==
  [s |-> [s EXCEPT !.status = READY, !.rehydrated = FALSE],
   pc |-> "rejected", err |-> error, w |-> NoWalletId]

\* The catch block of connect(), lines 116-122.
ConnectCatch(s, error) ==
  [s |-> Emit([s EXCEPT !.status = READY, !.rehydrated = FALSE], "ERRORED", error),
   pc |-> "rejected", err |-> error, w |-> NoWalletId]

\* BaseInjectedProvider.setupProvider, lines 122-140: a new engine whose config
\* stage captures the chain id of the provider's own config.
setupProvider(prov, handlers) ==
  <<[prov[1] EXCEPT !.engine = <<[handlers |-> handlers, chainId |-> prov[1].chainId]>>]>>

\* getProviderHandlers of the injected provider for a wallet.
getProviderHandlers(w) == AllHandlers

\* connectWithProvider up to its await, lines 178-180.
connectWithProviderCall(s, w, setupOk) ==
  IF s.provider = Null
    THEN ConnectCatch(s, <<"ConnectionError", "No demon provider">>)
  ELSE IF ~setupOk
    THEN [s |-> s, pc |-> "setupFailed", err |-> NoError, w |-> w]
  ELSE [s |-> [s EXCEPT !.provider = setupProvider(@, getProviderHandlers(w))],
        pc |-> "setupProvider", err |-> NoError, w |-> w]

\* connect() with the default cluster kept for a chain id it does not know.
connectCall_DefaultCluster(s, fresh, chainId, setupOk) ==
  LET pre == checkConnectionRequirements(s.status) IN
  IF pre # NoError THEN ConnectCatch(s, pre)
  ELSE
    LET s1 == Emit([s EXCEPT !.status = CONNECTING], "CONNECTING", "DEMON")
        w == s1.nWallets + 1
        s2 == [s1 EXCEPT !.nWallets = w, !.wallets[w] = fresh]
    IN IF ~fresh.connected
         THEN [s |-> s2, pc |-> "walletConnect", err |-> NoError, w |-> w]
         ELSE connectWithProviderCall(s2, w, setupOk)

\* connect() from its entry to its first suspension, lines 81-108.
\* `fresh` is the state of the wallet object line 99 constructs.
connectCall(s, fresh, chainId, setupOk) ==
  LET pre == checkConnectionRequirements(s.status) IN
  IF pre # NoError THEN ConnectCatch(s, pre)
  ELSE
    LET s1 == Emit([s EXCEPT !.status = CONNECTING], "CONNECTING", "DEMON") IN
    IF chainId \notin SupportedChainIds
      THEN ConnectCatch(s1, <<"ConnectionError", "Invalid chainId">>)
    ELSE
      LET w == s1.nWallets + 1
          s2 == [s1 EXCEPT !.nWallets = w, !.wallets[w] = fresh]
      IN IF ~fresh.connected
           THEN [s |-> s2, pc |-> "walletConnect", err |-> NoError, w |-> w]
           ELSE connectWithProviderCall(s2, w, setupOk)

\* The wallet's connect() settles and connect() runs on to line 108.
walletConnectReturn(s, w, outcome, setupOk) ==
  CASE outcome = "web3AuthError" -> ConnectCatch(s, <<"Web3AuthError", "wallet">>)
    [] outcome = "error" -> ConnectCatch(s, <<"ConnectionError", "wallet">>)
    [] outcome = "connected" ->
         connectWithProviderCall(
           [s EXCEPT !.wallets[w] = [@ EXCEPT !.connected = TRUE, !.publicKey = TRUE]],
           w, setupOk)
    [] outcome = "noPublicKey" ->
         connectWithProviderCall(
           [s EXCEPT !.wallets[w] = [@ EXCEPT !.connected = TRUE, !.publicKey = FALSE]],
           w, setupOk)

WalletConnectOutcomes == {"web3AuthError", "error", "connected", "noPublicKey"}

\* setupProvider has settled: connectWithProvider, lines 181-186.
connectWithProviderResume(s, w) ==
  [s |-> Emit([s EXCEPT !.status = CONNECTED], "CONNECTED",
              [reconnected |-> s.rehydrated]),
   pc |-> "connectWithProvider", err |-> NoError, w |-> w]

\* connectWithProvider has returned: connect(), lines 110-115.
connectResume(s, w) ==
  LET s1 == [s EXCEPT !.wallet = w] IN
  IF ~s1.wallets[w].publicKey
    THEN ConnectCatch(s1, <<"ConnectionError", "no public key">>)
    ELSE [s |-> [s1 EXCEPT !.wallets[w].listener = TRUE, !.wallets[w].resolved = TRUE],
          pc |-> "resolved", err |-> NoError, w |-> w]

\* _onDisconnect, lines 189-200.
onDisconnect(s) ==
  IF s.wallet # NoWalletId
    THEN Emit([s EXCEPT !.wallets[s.wallet].listener = FALSE,
                        !.rehydrated = FALSE,
                        !.status = IF s.status = CONNECTED THEN READY ELSE NOT_READY],
              "DISCONNECTED", <<>>)
    ELSE s

\* A wallet object emits "disconnect": its listeners run.
walletEmitDisconnect(s, w) ==
  IF s.wallets[w].listener THEN onDisconnect(s) ELSE s

----------------------------------------------------------------------------
(* Initial state: a constructed adapter, lines 29-42 *)

FreshWallets == {[connected |-> c, publicKey |-> k, listener |-> FALSE,
                  resolved |-> FALSE] : c \in BOOLEAN, k \in BOOLEAN} \
                {[connected |-> FALSE, publicKey |-> TRUE, listener |-> FALSE,
                  resolved |-> FALSE]}

\* The record of a step.  `out` is what became of the call the step belongs
\* to: "pending", "resolved" or "rejected" (with `err`), or "" when it has none.
Op(name, c, arg, out, err) ==
  [name |-> name, c |-> c, pre |-> status, arg |-> arg, out |-> out, err |-> err]

Out(pc) == IF Settled(pc) THEN pc ELSE "pending"

Init ==
  /\ status = NOT_READY
  /\ _wallet = NoWalletId
  /\ demonProvider = Null
  /\ rehydrated = FALSE
  /\ chainConfig \in InitChainIds
  /\ knownChainConfigs = {chainConfig}
  /\ wallets = [w \in WalletIds |-> NoWallet]
  /\ nWallets = 0
  /\ calls = [c \in CallIds |-> IdleCall]
  /\ initCall = IdleInit
  /\ discCall = IdleDisc
  /\ switchCall = IdleSwitch
  /\ emitted = <<>>
  /\ response = EmptyResponse
  /\ op = [name |-> "new", c |-> 0, pre |-> NOT_READY, arg |-> <<>>, out |-> "",
           err |-> NoError]

----------------------------------------------------------------------------
(* connect() *)

FreeCall(c) == calls[c].pc = "idle"

LowestFree == CHOOSE c \in CallIds : FreeCall(c) /\ \A d \in CallIds : FreeCall(d) => c <= d

\* connect() would construct a wallet object (line 99) in this state.
ConstructsWallet(st, chainId) == st = READY /\ chainId \in SupportedChainIds

\* Where a step of connect() call c leaves the call: in its slot while it is
\* suspended; when it settles the slot is freed and an init() that awaits it
\* gets the outcome.
ConnectStep(c, r, byInit) ==
  /\ calls' = IF c = 0 THEN calls
              ELSE IF Settled(r.pc) THEN [calls EXCEPT ![c] = IdleCall]
              ELSE [calls EXCEPT ![c] = [pc |-> r.pc, w |-> r.w, byInit |-> byInit]]
  /\ initCall' = IF byInit /\ Settled(r.pc)
                   THEN [initCall EXCEPT !.out = r.pc, !.err = r.err]
                   ELSE initCall

ConnectStart ==
  /\ ConstructsWallet(status, chainConfig) =>
       nWallets < MaxWallets /\ \E c \in CallIds : FreeCall(c)
  /\ \E fresh \in FreshWallets, setupOk \in BOOLEAN :
       LET r == connectCall(Cur, fresh, chainConfig, setupOk)
           c == IF Settled(r.pc) THEN 0 ELSE LowestFree
       IN /\ Set(r.s)
          /\ ConnectStep(c, r, FALSE)
          /\ op' = Op("connect", c, chainConfig, Out(r.pc), r.err)
  /\ response' = EmptyResponse
  /\ UNCHANGED <<chainConfig, knownChainConfigs, discCall, switchCall>>

WalletConnectReturn(c) ==
  /\ calls[c].pc = "walletConnect"
  /\ \E outcome \in WalletConnectOutcomes, setupOk \in BOOLEAN :
       LET r == walletConnectReturn(Cur, calls[c].w, outcome, setupOk) IN
       /\ Set(r.s)
       /\ ConnectStep(c, r, calls[c].byInit)
       /\ op' = Op("walletConnectReturn", c, outcome, Out(r.pc), r.err)
  /\ response' = EmptyResponse
  /\ UNCHANGED <<chainConfig, knownChainConfigs, discCall, switchCall>>

SetupProviderReturn(c) ==
  /\ calls[c].pc \in {"setupProvider", "setupFailed"}
  /\ LET r == IF calls[c].pc = "setupProvider"
                THEN connectWithProviderResume(Cur, calls[c].w)
                ELSE ConnectCatch(Cur, <<"ProviderError", "setupProvider">>)
     IN /\ Set(r.s)
        /\ ConnectStep(c, r, calls[c].byInit)
        /\ op' = Op("setupProviderReturn", c, calls[c].pc, Out(r.pc), r.err)
  /\ response' = EmptyResponse
  /\ UNCHANGED <<chainConfig, knownChainConfigs, discCall, switchCall>>

ConnectWithProviderReturn(c) ==
  /\ calls[c].pc = "connectWithProvider"
  /\ LET r == connectResume(Cur, calls[c].w)
     IN /\ Set(r.s)
        /\ ConnectStep(c, r, calls[c].byInit)
        /\ op' = Op("connectWithProviderReturn", c, calls[c].w, Out(r.pc), r.err)
  /\ response' = EmptyResponse
  /\ UNCHANGED <<chainConfig, knownChainConfigs, discCall, switchCall>>

\* The wallet object line 99 constructs when no session exists yet.
UnconnectedWallet == NoWallet

\* connect(), lines 81-115, run from state s to its end with no other call in
\* between, a wallet that accepts the session and a provider setup that succeeds.
connectRun(s, chainId) ==
  LET r1 == connectCall(s, UnconnectedWallet, chainId, TRUE)
      r2 == IF r1.pc = "walletConnect"
              THEN walletConnectReturn(r1.s, r1.w, "connected", TRUE) ELSE r1
      r3 == IF r2.pc = "setupProvider"
              THEN connectWithProviderResume(r2.s, r2.w) ELSE r2
  IN IF r3.pc = "connectWithProvider" THEN connectResume(r3.s, r3.w) ELSE r3

----------------------------------------------------------------------------
(* The wallet's "disconnect" notification *)

\* A wallet object that exists emits "disconnect"; `keepKey` says whether its
\* publicKey stays readable afterwards.  op.arg records whether _onDisconnect ran.
WalletDisconnectEvent(w) ==
  /\ w \in 1..nWallets
  /\ \E keepKey \in BOOLEAN :
       LET s0 == [Cur EXCEPT !.wallets[w] =
                    [@ EXCEPT !.connected = FALSE, !.publicKey = @ /\ keepKey]]
       IN Set(walletEmitDisconnect(s0, w))
  /\ op' = Op("walletDisconnectEvent", w, wallets[w].listener, "", NoError)
  /\ response' = EmptyResponse
  /\ UNCHANGED <<chainConfig, knownChainConfigs, calls, initCall, discCall, switchCall>>

----------------------------------------------------------------------------
(* init() *)

\* new DemonInjectedProvider({ config: { chainConfig } }), lines 61-63: a
\* provider shell with a copy of the adapter's chain config and no engine yet.
newDemonInjectedProvider(chainId) == <<[chainId |-> chainId, engine |-> Null]>>

\* init() is suspended on super.init(options), line 59.
InitStart(autoConnect) ==
  /\ initCall.pc = "idle"
  /\ initCall' = [pc |-> "superInit", autoConnect |-> autoConnect, out |-> "",
                  err |-> NoError]
  /\ op' = Op("init", 0, autoConnect, "pending", NoError)
  /\ emitted' = <<>>
  /\ response' = EmptyResponse
  /\ UNCHANGED <<status, _wallet, demonProvider, rehydrated, chainConfig,
                 knownChainConfigs, wallets, nWallets, calls, discCall, switchCall>>

\* init() that creates the provider shell and emits READY but leaves the status.
initResume_KeepsStatus(s, chainId) ==
  Emit([s EXCEPT !.provider = newDemonInjectedProvider(chainId)], "READY", "DEMON")

\* init(), lines 60-66.
initResume(s, chainId) ==
  Emit([s EXCEPT !.provider = newDemonInjectedProvider(chainId), !.status = READY],
       "READY", "DEMON")

\* Lines 60-72: the rest of init() up to the await of connect().
InitResume ==
  /\ initCall.pc = "superInit"
  /\ LET pre == checkInitializationRequirements(status) IN
     IF pre # NoError
       THEN /\ initCall' = IdleInit
            /\ emitted' = <<>>
            /\ op' = Op("initResume", 0, initCall.autoConnect, "rejected", pre)
            /\ UNCHANGED <<status, _wallet, demonProvider, rehydrated, wallets,
                           nWallets, calls>>
     ELSE IF ~initCall.autoConnect
       THEN /\ Set(initResume(Cur, chainConfig))
            /\ initCall' = IdleInit
            /\ op' = Op("initResume", 0, initCall.autoConnect, "resolved", NoError)
            /\ UNCHANGED calls
     ELSE /\ ConstructsWallet(READY, chainConfig) =>
               nWallets < MaxWallets /\ \E c \in CallIds : FreeCall(c)
          /\ \E fresh \in FreshWallets, setupOk \in BOOLEAN :
               LET s1 == [initResume(Cur, chainConfig) EXCEPT !.rehydrated = TRUE]
                   r == connectCall(s1, fresh, chainConfig, setupOk)
                   c == IF Settled(r.pc) THEN 0 ELSE LowestFree
               IN /\ Set(r.s)
                  /\ calls' = IF c = 0 THEN calls
                              ELSE [calls EXCEPT ![c] = [pc |-> r.pc, w |-> r.w,
                                                         byInit |-> TRUE]]
                  /\ initCall' = [initCall EXCEPT !.pc = "awaitConnect",
                                                  !.out = Out(r.pc), !.err = r.err]
                  /\ op' = Op("initResume", c, initCall.autoConnect, "pending", NoError)
  /\ response' = EmptyResponse
  /\ UNCHANGED <<chainConfig, knownChainConfigs, discCall, switchCall>>

\* Lines 72-77: the connect() that init() awaits has settled.
InitConnectSettled ==
  /\ initCall.pc = "awaitConnect"
  /\ initCall.out \in {"resolved", "rejected"}
  /\ Set(IF initCall.out = "rejected" THEN Emit(Cur, "ERRORED", initCall.err) ELSE Cur)
  /\ initCall' = IdleInit
  /\ op' = Op("initConnectSettled", 0, initCall.out, "resolved", NoError)
  /\ response' = EmptyResponse
  /\ UNCHANGED <<chainConfig, knownChainConfigs, calls, discCall, switchCall>>

----------------------------------------------------------------------------
(* disconnect() *)

\* Line 128: disconnectSession checks the status and then talks to the provider.
DisconnectStart(cleanup) ==
  /\ discCall.pc = "idle"
  /\ LET pre == checkDisconnectionRequirements(status) IN
       /\ discCall' = IF pre # NoError THEN IdleDisc
                      ELSE [pc |-> "disconnectSession", cleanup |-> cleanup,
                            w |-> NoWalletId]
       /\ op' = Op("disconnect", 0, cleanup, IF pre # NoError THEN "rejected" ELSE "pending",
                   pre)
  /\ emitted' = <<>>
  /\ response' = EmptyResponse
  /\ UNCHANGED <<status, _wallet, demonProvider, rehydrated, chainConfig,
                 knownChainConfigs, wallets, nWallets, calls, initCall, switchCall>>

\* Lines 128-130: disconnectSession settles; on success _wallet?.disconnect() is called.
DisconnectSessionReturn ==
  /\ discCall.pc = "disconnectSession"
  /\ \E ok \in BOOLEAN :
       /\ discCall' = IF ok
                        THEN [discCall EXCEPT !.pc = "walletDisconnect", !.w = _wallet]
                        ELSE IdleDisc
       /\ op' = IF ok
                  THEN Op("disconnectSessionReturn", 0, discCall.cleanup, "pending", NoError)
                  ELSE Op("disconnectSessionReturn", 0, discCall.cleanup, "rejected",
                          <<"SessionError", "disconnectSession">>)
  /\ emitted' = <<>>
  /\ response' = EmptyResponse
  /\ UNCHANGED <<status, _wallet, demonProvider, rehydrated, chainConfig,
                 knownChainConfigs, wallets, nWallets, calls, initCall, switchCall>>

WalletDisconnectOutcomes == {"ok", "okEmit", "throws"}

\* A teardown that keeps the provider shell when cleanup is requested.
disconnectResume_KeepsProvider(s, cleanup) ==
  LET s1 == IF cleanup
              THEN [s EXCEPT !.status = NOT_READY, !.wallet = NoWalletId]
              ELSE [s EXCEPT !.status = READY]
  IN Emit([s1 EXCEPT !.rehydrated = FALSE], "DISCONNECTED", <<>>)

\* Lines 131-138 and BaseSolanaAdapter.disconnect.
disconnectResume(s, cleanup) ==
  LET s1 == IF cleanup
              THEN [s EXCEPT !.status = NOT_READY, !.provider = Null,
                             !.wallet = NoWalletId]
              ELSE [s EXCEPT !.status = READY]
  IN Emit([s1 EXCEPT !.rehydrated = FALSE], "DISCONNECTED", <<>>)

\* The wallet's disconnect() settles: it detached ("ok"), detached and emitted
\* its "disconnect" event ("okEmit"), or threw (lines 139-144).
walletDisconnectReturn(s, w, cleanup, outcome) ==
  IF outcome = "throws"
    THEN Emit(s, "ERRORED", <<"DisconnectionError", "wallet">>)
  ELSE IF w = NoWalletId THEN disconnectResume(s, cleanup)
  ELSE LET s0 == [s EXCEPT !.wallets[w] = [@ EXCEPT !.connected = FALSE,
                                                    !.publicKey = FALSE]]
           s1 == IF outcome = "okEmit" THEN walletEmitDisconnect(s0, w) ELSE s0
       IN disconnectResume(s1, cleanup)

WalletDisconnectReturn ==
  /\ discCall.pc = "walletDisconnect"
  /\ \E outcome \in WalletDisconnectOutcomes :
       /\ discCall.w = NoWalletId => outcome = "ok"
       /\ Set(walletDisconnectReturn(Cur, discCall.w, discCall.cleanup, outcome))
       /\ op' = Op("walletDisconnectReturn", discCall.w, <<discCall.cleanup, outcome>>,
                   "resolved", NoError)
  /\ discCall' = IdleDisc
  /\ response' = EmptyResponse
  /\ UNCHANGED <<chainConfig, knownChainConfigs, calls, initCall, switchCall>>

----------------------------------------------------------------------------
(* addChain(), switchChain(), getUserInfo() and requests through the router *)

\* BaseAdapter.checkAddChainRequirements, called at line 159.
checkAddChainRequirements(s, init) ==
  IF ~init /\ provider(s) = Null
    THEN <<"NotConnectedError", "addChain">> ELSE NoError

\* BaseAdapter.checkSwitchChainRequirements, called at line 168.
checkSwitchChainRequirements(s, known, chainId, init) ==
  IF ~init /\ provider(s) = Null THEN <<"NotConnectedError", "switchChain">>
  ELSE IF chainId \notin known THEN <<"ChainConfigNotAdded", chainId>>
  ELSE NoError

\* BaseInjectedProvider.switchChain, lines 118-120: the error it throws.
switchChain(chainId) == <<"UnsupportedOperation", "switchChain">>

AddChain(chainId, init) ==
  /\ LET pre == checkAddChainRequirements(Cur, init) IN
       /\ knownChainConfigs' = IF pre = NoError THEN knownChainConfigs \cup {chainId}
                                                ELSE knownChainConfigs
       /\ op' = Op("addChain", 0, <<chainId, init>>,
                   IF pre = NoError THEN "resolved" ELSE "rejected", pre)
  /\ emitted' = <<>>
  /\ response' = EmptyResponse
  /\ UNCHANGED <<status, _wallet, demonProvider, rehydrated, chainConfig, wallets,
                 nWallets, calls, initCall, discCall, switchCall>>

\* Lines 168-169: the checks, and demonProvider?.switchChain when there is a provider.
SwitchChainStart(chainId, init) ==
  /\ switchCall.pc = "idle"
  /\ LET pre == checkSwitchChainRequirements(Cur, knownChainConfigs, chainId, init)
         err == IF pre # NoError THEN pre
                ELSE IF demonProvider # Null THEN switchChain(chainId)
                ELSE NoError
     IN /\ switchCall' = IF err # NoError THEN IdleSwitch
                         ELSE [pc |-> "awaitProvider", chainId |-> chainId]
        /\ op' = Op("switchChain", 0, <<chainId, init>>,
                    IF err # NoError THEN "rejected" ELSE "pending", err)
  /\ emitted' = <<>>
  /\ response' = EmptyResponse
  /\ UNCHANGED <<status, _wallet, demonProvider, rehydrated, chainConfig,
                 knownChainConfigs, wallets, nWallets, calls, initCall, discCall>>

\* Lines 170-172: setAdapterSettings({ chainConfig: getChainConfig(chainId) }).
SwitchChainResume ==
  /\ switchCall.pc = "awaitProvider"
  /\ chainConfig' = switchCall.chainId
  /\ switchCall' = IdleSwitch
  /\ op' = Op("switchChainResume", 0, switchCall.chainId, "resolved", NoError)
  /\ emitted' = <<>>
  /\ response' = EmptyResponse
  /\ UNCHANGED <<status, _wallet, demonProvider, rehydrated, knownChainConfigs,
                 wallets, nWallets, calls, initCall, discCall>>

\* getUserInfo(), lines 147-153: the error it throws, or NoError for {}.
getUserInfo(s) ==
  IF ~isWalletConnected(s) THEN <<"NotConnectedError", "getUserInfo">> ELSE NoError

GetUserInfo ==
  /\ LET err == getUserInfo(Cur) IN
       op' = Op("getUserInfo", 0, <<>>, IF err = NoError THEN "resolved" ELSE "rejected", err)
  /\ emitted' = <<>>
  /\ response' = EmptyResponse
  /\ UNCHANGED <<status, _wallet, demonProvider, rehydrated, chainConfig,
                 knownChainConfigs, wallets, nWallets, calls, initCall, discCall,
                 switchCall>>

\* A request sent to adapter.provider, the engine setupProvider built.
Request(method) ==
  /\ provider(Cur) # Null
  /\ response' = Dispatch(demonProvider[1].engine[1], method)
  /\ op' = Op("request", 0, method, "", NoError)
  /\ emitted' = <<>>
  /\ UNCHANGED <<status, _wallet, demonProvider, rehydrated, chainConfig,
                 knownChainConfigs, wallets, nWallets, calls, initCall, discCall,
                 switchCall>>

----------------------------------------------------------------------------
(* Specifications *)

\* The connection lifecycle of an adapter whose chain config stays as constructed.
Next ==
  \/ ConnectStart
  \/ \E c \in CallIds : WalletConnectReturn(c)
  \/ \E c \in CallIds : SetupProviderReturn(c)
  \/ \E c \in CallIds : ConnectWithProviderReturn(c)
  \/ \E w \in WalletIds : WalletDisconnectEvent(w)
  \/ \E a \in BOOLEAN : InitStart(a)
  \/ InitResume
  \/ InitConnectSettled
  \/ \E cleanup \in BOOLEAN : DisconnectStart(cleanup)
  \/ DisconnectSessionReturn
  \/ WalletDisconnectReturn
  \/ GetUserInfo

Spec == Init /\ [][Next]_vars

\* Chain configuration: init() without auto-connect, connect(), addChain(),
\* switchChain() and solana_chainId queries, with a wallet that emits no events.
NextChain ==
  \/ ConnectStart
  \/ \E c \in CallIds : WalletConnectReturn(c)
  \/ \E c \in CallIds : SetupProviderReturn(c)
  \/ \E c \in CallIds : ConnectWithProviderReturn(c)
  \/ InitStart(FALSE)
  \/ InitResume
  \/ \E id \in ChainIds, init \in BOOLEAN : AddChain(id, init)
  \/ \E id \in ChainIds, init \in BOOLEAN : SwitchChainStart(id, init)
  \/ SwitchChainResume
  \/ Request("solana_chainId")

SpecChain == Init /\ [][NextChain]_vars

\* The router on its own: an adapter that has connected to a wallet whose
\* handlers are any of HandlerConfigs, and requests for every method.
InitRouter ==
  /\ status = CONNECTED
  /\ _wallet = 1
  /\ \E id \in InitChainIds \cap SupportedChainIds, h \in HandlerConfigs :
       /\ chainConfig = id
       /\ demonProvider = <<[chainId |-> id,
                             engine |-> <<[handlers |-> h, chainId |-> id]>>]>>
  /\ rehydrated = FALSE
  /\ knownChainConfigs = {chainConfig}
  /\ wallets = [w \in WalletIds |->
                  IF w = 1 THEN [connected |-> TRUE, publicKey |-> TRUE, listener |-> TRUE,
                                 resolved |-> TRUE]
                           ELSE NoWallet]
  /\ nWallets = 1
  /\ calls = [c \in CallIds |-> IdleCall]
  /\ initCall = IdleInit
  /\ discCall = IdleDisc
  /\ switchCall = IdleSwitch
  /\ emitted = <<>>
  /\ response = EmptyResponse
  /\ op = [name |-> "connectWithProviderReturn", c |-> 1, pre |-> CONNECTED, arg |-> 1,
           out |-> "resolved", err |-> NoError]

NextRouter == \E m \in Methods : Request(m)

SpecRouter == InitRouter /\ [][NextRouter]_vars

----------------------------------------------------------------------------
(* Properties of the connection lifecycle *)

ConnectSteps == {"connect", "walletConnectReturn", "setupProviderReturn",
                 "connectWithProviderReturn"}

\* C1: in every reachable state, status CONNECTED implies that the adapter
\* holds a wallet reference and a provider whose engine proxy is set.
C1_ConnectedHoldsWalletAndProvider ==
  status = CONNECTED => (_wallet # NoWalletId /\ provider(Cur) # Null)

\* C2: a connect() called in a status other than READY is rejected with a
\* precondition error and leaves the status as it was.
C2_RejectedConnectKeepsStatus ==
  (op.name = "connect" /\ op.pre # READY) =>
    /\ op.out = "rejected"
    /\ op.err = <<"PreconditionError", op.pre>>
    /\ status = op.pre

\* C3: a connect() that resolves with status CONNECTED does so for a wallet
\* whose session has not been disconnected while the call was in flight.
C3_ConnectObservesDisconnect ==
  (op.name = "connectWithProviderReturn" /\ op.out = "resolved" /\ status = CONNECTED)
    => wallets[op.arg].connected

\* _onDisconnect ran for the "disconnect" event of a wallet while status was CONNECTED.
DeliveredWhileConnected ==
  op.name = "walletDisconnectEvent" /\ op.arg /\ op.pre = CONNECTED

\* C4: a disconnect notification delivered while CONNECTED moves status to
\* READY and emits exactly one DISCONNECTED event, and a second firing of the
\* same notification right after it changes nothing and emits nothing.
C4_DisconnectNotificationOnce ==
  [][ /\ DeliveredWhileConnected' =>
           (status' = READY /\ CountEmitted("DISCONNECTED")' = 1)
      /\ (DeliveredWhileConnected /\ op'.name = "walletDisconnectEvent" /\ op'.c = op.c) =>
           (status' = status /\ emitted' = <<>>) ]_vars

\* C9: connect() in status READY with an unsupported chain id is rejected with
\* the invalid-chain error, constructs and binds no wallet, and leaves READY.
\* The connect() that init() runs for autoConnect is such a call too.
C9_UnsupportedChainRejected ==
  [][ /\ (op'.name = "connect" /\ op'.pre = READY /\ op'.arg \notin SupportedChainIds) =>
           /\ op'.out = "rejected"
           /\ op'.err = <<"ConnectionError", "Invalid chainId">>
           /\ status' = READY
           /\ wallets' = wallets /\ nWallets' = nWallets /\ _wallet' = _wallet
           /\ calls' = calls
      /\ (op'.name = "initResume" /\ op'.out = "pending"
            /\ chainConfig \notin SupportedChainIds) =>
           /\ initCall'.out = "rejected"
           /\ initCall'.err = <<"ConnectionError", "Invalid chainId">>
           /\ status' = READY
           /\ wallets' = wallets /\ nWallets' = nWallets /\ _wallet' = _wallet
           /\ calls' = calls ]_vars

C9_Witness ==
  /\ op.name = "connect" /\ op.pre = READY /\ op.arg = "0x4"
  /\ op.out = "rejected" /\ status = READY /\ nWallets = 0

\* C10: a connect() whose wallet session cannot be established (the wallet's
\* connect throws, the provider setup fails, the public key is absent) is
\* rejected, and every rejected connect() leaves status READY and rehydrated
\* false and emits one ERRORED event that carries the error it rethrows.
C10_FailedConnectRollsBack ==
  /\ (op.name = "walletConnectReturn" /\ op.arg \in {"web3AuthError", "error"}) =>
       op.out = "rejected"
  /\ (op.name = "setupProviderReturn" /\ op.arg = "setupFailed") => op.out = "rejected"
  /\ (op.name = "connectWithProviderReturn" /\ ~wallets[op.arg].publicKey) =>
       op.out = "rejected"
  /\ (op.name \in ConnectSteps /\ op.out = "rejected") =>
       /\ status = READY
       /\ ~rehydrated
       /\ op.err # NoError
       /\ CountEmitted("ERRORED") = 1
       /\ emitted[Len(emitted)] = <<"ERRORED", op.err>>

C10_Witness ==
  /\ op.name = "connectWithProviderReturn" /\ op.out = "rejected"
  /\ op.pre = CONNECTED /\ status = READY
  /\ emitted = <<<<"ERRORED", <<"ConnectionError", "no public key">>>>>>

----------------------------------------------------------------------------
(* Properties of the chain configuration *)

\* C8: while the adapter is CONNECTED, a solana_chainId query through the
\* router returns the chain id the adapter is configured with at that time.
C8_ChainIdQueryIsCurrent ==
  (op.name = "request" /\ op.arg = "solana_chainId" /\ status = CONNECTED) =>
    response.result = <<"chainId", chainConfig>>

----------------------------------------------------------------------------
(* Properties of the router *)

\* The bindings of the method surface: the handler and the stage of each name.
BoundHandler(m) ==
  CASE m = "solanaPrivateKey" -> "getPrivateKey"
    [] m = "private_key" -> "getPrivateKey"
    [] m = "solanaSecretKey" -> "getSecretKey"
    [] OTHER -> m

BoundStage(m) ==
  CASE m = "requestAccounts" -> 1
    [] m = "getAccounts" -> 2
    [] m = "signTransaction" -> 3
    [] m = "signAndSendTransaction" -> 4
    [] m = "signAllTransactions" -> 5
    [] m = "signMessage" -> 6
    [] m = "solanaPrivateKey" -> 7
    [] m = "private_key" -> 8
    [] m = "solanaSecretKey" -> 9

EngineHandlers == demonProvider[1].engine[1].handlers

IsRequest == op.name = "request"

IsNotProvided(e) == e # NoError /\ e[1] = "not provided"

\* C5: a request for a bound method whose handler is there invokes that
\* handler and no other, puts its return value in response.result (or fails
\* with what it threw), and no stage after the one bound to the name is consulted.
C5_BoundMethodRunsItsHandler ==
  (IsRequest /\ op.arg \in BoundMethods /\ EngineHandlers[BoundHandler(op.arg)] # "absent") =>
    LET h == BoundHandler(op.arg) IN
    /\ response.invoked = <<h>>
    /\ response.ended
    /\ response.visited = [i \in 1..BoundStage(op.arg) |-> i]
    /\ EngineHandlers[h] = "returns" =>
         (response.result = HandlerValue(h) /\ response.error = NoError)
    /\ EngineHandlers[h] = "throws" =>
         (response.result = Unset /\ response.error = HandlerError(h))

C5_Witness ==
  /\ IsRequest /\ op.arg = "solanaPrivateKey"
  /\ EngineHandlers["getPrivateKey"] = "throws"
  /\ response.error = HandlerError("getPrivateKey")
  /\ response.visited = <<1, 2, 3, 4, 5, 6, 7>>

\* C6: a request for a method that is neither bound nor a config query passes
\* every stage: no handler runs, no result is written, no error is raised.
C6_UnboundMethodFallsThrough ==
  (IsRequest /\ op.arg \notin BoundMethods \cup ConfigMethods) =>
    /\ response.visited = [i \in 1..NumStages |-> i]
    /\ response.invoked = <<>>
    /\ response.result = Unset
    /\ response.error = NoError
    /\ ~response.ended

C6_Witness ==
  /\ IsRequest /\ op.arg = "getBalance"
  /\ Len(response.visited) = NumStages
  /\ \A h \in HandlerNames : EngineHandlers[h] = "absent"
  /\ response.result = Unset

\* C7: a request fails with a "not provided" error exactly when its method is
\* bound to an absent handler; the error names the method, no handler runs,
\* no result is written and no later stage is consulted.
C7_AbsentHandlerNotProvided ==
  IsRequest =>
    /\ IsNotProvided(response.error) <=>
         (op.arg \in BoundMethods /\ EngineHandlers[BoundHandler(op.arg)] = "absent")
    /\ IsNotProvided(response.error) =>
         /\ response.error[2][2] = op.arg
         /\ response.invoked = <<>>
         /\ response.result = Unset
         /\ response.ended
         /\ response.visited = [i \in 1..BoundStage(op.arg) |-> i]

C7_Witness ==
  /\ IsRequest /\ op.arg = "getAccounts"
  /\ EngineHandlers["getAccounts"] = "absent"
  /\ EngineHandlers["requestAccounts"] = "returns"
  /\ response.error = NotProvided(<<"opts.", "getAccounts">>)

----------------------------------------------------------------------------
(* Properties of disconnect() and init() *)

DisconnectSteps == {"disconnect", "disconnectSessionReturn", "walletDisconnectReturn"}

\* C11: no step of a disconnect() call rejects, whatever the status and
\* whichever of its steps fails (the session check, the wallet's detach,
\* the base disconnect): a failure is only emitted as an ERRORED event.
C11_DisconnectNeverRejects ==
  op.name \in DisconnectSteps =>
    /\ op.out # "rejected"
    /\ op.err # NoError => Emitted("ERRORED")

DisconnectCompleted(cleanup) ==
  /\ op.name = "walletDisconnectReturn"
  /\ op.arg[1] = cleanup
  /\ op.arg[2] # "throws"

\* connect() run from adapter state s resolves CONNECTED with a new wallet bound.
ConnectSucceedsFrom(s, chainId) ==
  LET r == connectRun(s, chainId) IN
  /\ r.pc = "resolved"
  /\ r.s.status = CONNECTED
  /\ r.s.wallet = s.nWallets + 1
  /\ provider(r.s) # Null

\* C13: when disconnect({cleanup: true}) completes, status is NOT_READY, the
\* wallet and the provider references are cleared and rehydrated is false, as
\* on a new instance: init() is accepted, and init() then connect() resolves
\* CONNECTED.
C13_CleanupDisconnectResets ==
  DisconnectCompleted(TRUE) =>
    /\ status = NOT_READY
    /\ _wallet = NoWalletId
    /\ demonProvider = Null
    /\ ~rehydrated
    /\ checkInitializationRequirements(status) = NoError
    /\ nWallets < MaxWallets =>
         \A id \in SupportedChainIds : ConnectSucceedsFrom(initResume(Cur, id), id)

C13_Witness ==
  /\ DisconnectCompleted(TRUE) /\ op.c = 1 /\ op.arg[2] = "okEmit"
  /\ nWallets = 1 /\ status = NOT_READY /\ demonProvider = Null
  /\ Emitted("DISCONNECTED")

\* C14: when disconnect({cleanup: false}) completes, status is READY and the
\* provider shell is kept, and a connect() with a supported chain id and a
\* wallet that accepts the session resolves CONNECTED with no init() before it.
C14_DisconnectLeavesReadyToConnect ==
  DisconnectCompleted(FALSE) =>
    /\ status = READY
    /\ demonProvider # Null
    /\ nWallets < MaxWallets =>
         \A id \in SupportedChainIds : ConnectSucceedsFrom(Cur, id)

\* C15: every completed disconnect() leaves the wallet reference cleared;
\* without cleanup the provider shell is kept.
C15_DisconnectClearsWallet ==
  (op.name = "walletDisconnectReturn" /\ op.arg[2] # "throws") =>
    /\ _wallet = NoWalletId
    /\ ~op.arg[1] => demonProvider # Null

----------------------------------------------------------------------------
(* Properties of getUserInfo() and of the status *)

\* Some connect() call has resolved.
EverConnected == \E w \in 1..nWallets : wallets[w].resolved

\* C16: getUserInfo() fails with the not-connected error when no connect() has
\* resolved yet, when status is not CONNECTED or when the bound wallet's
\* session is gone; it resolves when status is CONNECTED and the wallet a
\* connect() resolved with is bound and connected; it changes nothing.
C16_GetUserInfoOnlyWhenConnected ==
  [][ op'.name = "getUserInfo" =>
        /\ (\/ ~EverConnected
            \/ status # CONNECTED
            \/ (_wallet # NoWalletId /\ ~wallets[_wallet].connected)) =>
             (op'.out = "rejected" /\ op'.err = <<"NotConnectedError", "getUserInfo">>)
        /\ (/\ status = CONNECTED
            /\ _wallet # NoWalletId
            /\ wallets[_wallet].resolved
            /\ wallets[_wallet].connected) =>
             (op'.out = "resolved" /\ op'.err = NoError)
        /\ status' = status /\ _wallet' = _wallet /\ demonProvider' = demonProvider
        /\ wallets' = wallets ]_vars

\* The changes of status of the lifecycle.
Transitions == {<<NOT_READY, READY>>, <<READY, CONNECTING>>, <<CONNECTING, CONNECTED>>,
                <<CONNECTING, READY>>, <<CONNECTED, READY>>, <<CONNECTED, NOT_READY>>,
                <<READY, NOT_READY>>}

\* C17: every change of status is one of Transitions (init() with autoConnect
\* goes from NOT_READY through READY to CONNECTING in one step); status becomes
\* CONNECTED only from CONNECTING and leaves NOT_READY only in init().
C17_StatusFollowsLifecycle ==
  [][ status' # status =>
        /\ \/ <<status, status'>> \in Transitions
           \/ (op'.name = "initResume" /\ status = NOT_READY /\ status' = CONNECTING)
        /\ status' = CONNECTED => status = CONNECTING
        /\ status = NOT_READY => op'.name = "initResume" ]_vars

\* connect() call c has passed its status check and has not yet got through
\* wallet.connect() and the provider setup.
Establishing(c) == calls[c].pc \in {"walletConnect", "setupProvider", "setupFailed"}

\* C18: at most one connect() call at a time is between its status check and
\* the end of its session setup.
C18_OneConnectAtATime ==
  Cardinality({c \in CallIds : Establishing(c)}) <= 1

\* C19: a connect() call that rejects has not emitted CONNECTED (it is not
\* rejected after connectWithProvider returned) and does not change _wallet.
C19_RejectedConnectLeavesNoTrace ==
  [][ (op'.name \in ConnectSteps /\ op'.out = "rejected") =>
        /\ op'.name # "connectWithProviderReturn"
        /\ ~Emitted("CONNECTED")'
        /\ _wallet' = _wallet ]_vars

\* Wallet w is a wallet object other than the adapter's current one.
Stale(w) == _wallet # NoWalletId /\ w # _wallet

\* C20: a "disconnect" notification of a wallet that is not the adapter's
\* current one changes neither status nor the listeners of the other wallets
\* and emits nothing; and once disconnect() has completed, the wallet it
\* detached carries no listener of the adapter.
C20_StaleNotificationIgnored ==
  [][ /\ (op'.name = "walletDisconnectEvent" /\ Stale(op'.c)) =>
           /\ status' = status
           /\ emitted' = <<>>
           /\ \A w \in WalletIds \ {op'.c} : wallets'[w].listener = wallets[w].listener
      /\ (op'.name = "walletDisconnectReturn" /\ op'.arg[2] # "throws" /\ op'.c # NoWalletId) =>
           ~wallets'[op'.c].listener ]_vars

====
